---- MODULE Spec2Model ----
(***************************************************************************)
(* Essence CRUD service (FastAPI + SQLAlchemy async + SQLite).             *)
(* State: the committed rows of table `essence` in rowid (= scan) order,   *)
(* and for every request task its position at the await points of its      *)
(* handler (get / commit / refresh), its input, the ORM object it holds    *)
(* in its own session and its response.                                    *)
(***************************************************************************)
EXTENDS Integers, Sequences, FiniteSets, TLC

VARIABLES rows, pc, op, arg, obj, res, assigned, wrote

vars == <<rows, pc, op, arg, obj, res, assigned, wrote>>

\* ---------------------------------------------------------------- bounds
MaxId == 2
MaxBulk == 2

\* ----------------------------------------------------- program constants
NameMaxLen == 255
DefaultLimit == 10
MaxLimit == 100

\* ------------------------------------------------------------- values
\* Strings are sequences of characters; an optional value is <<>> (null)
\* or <<v>>.
NameA == <<"A", "p">>
NameB == <<"b">>
LongName == [i \in 1..(NameMaxLen + 1) |-> "a"]
Fields == {"name", "quantity", "is_done"}
Locs == {"body", "query"}
NoObj == [none |-> TRUE]
NoRes == [status |-> 0, body |-> <<>>]

Lower(c) == CASE c = "A" -> "a" [] c = "P" -> "p" [] c = "B" -> "b" [] OTHER -> c
LowerStr(s) == [i \in DOMAIN s |-> Lower(s[i])]

\* SQLite LIKE: '%' matches any sequence, '_' any single character.
RECURSIVE Like(_, _)
Like(s, pt) ==
  IF pt = <<>> THEN s = <<>>
  ELSE IF Head(pt) = "%" THEN Like(s, Tail(pt)) \/ (s # <<>> /\ Like(Tail(s), pt))
  ELSE s # <<>> /\ (Head(pt) = "_" \/ Head(pt) = Head(s)) /\ Like(Tail(s), Tail(pt))

\* Essence.name.ilike(f'%{name}%') compiled for SQLite as lower(x) LIKE lower(y)
ILikeContains(s, nm) == Like(LowerStr(s), <<"%">> \o LowerStr(nm) \o <<"%">>)

\* ---------------------------------------------------------------- rows
RowIds(rs) == {rs[i].id : i \in DOMAIN rs}
RowById(rs, id) == rs[CHOOSE i \in DOMAIN rs : rs[i].id = id]
Max(S) == CHOOSE m \in S : \A x \in S : x <= m

\* SQLite INTEGER PRIMARY KEY without AUTOINCREMENT: max(rowid) + 1.
NewId(rs) == IF rs = <<>> THEN 1 ELSE Max(RowIds(rs)) + 1

\* mutant: the delete is never flushed
RemoveIdNone(rs, id) == rs

RemoveId(rs, id) == SelectSeq(rs, LAMBDA r : r.id # id)

\* ---------------------------------------------------------- payloads
Payload(l, h, n, q, d, x) ==
  [loc |-> l, has |-> h,
   name |-> IF "name" \in h THEN n ELSE <<>>,
   quantity |-> IF "quantity" \in h THEN q ELSE <<>>,
   is_done |-> IF "is_done" \in h THEN d ELSE <<>>,
   extra |-> x]

\* EssenceBase field constraints for a present, non-null value
ValidValue(f, v) ==
  CASE f = "name" -> Len(v) <= NameMaxLen
    [] f = "quantity" -> v >= 0
    [] f = "is_done" -> v \in BOOLEAN

\* EssenceBase / EssenceCreate / EssenceReplace from a JSON body
\* (extra='forbid', name and quantity required, is_done defaults to False)
ValidBase(pl) ==
  /\ pl.loc = "body"
  /\ ~pl.extra
  /\ {"name", "quantity"} \subseteq pl.has
  /\ \A f \in pl.has : pl[f] # <<>> /\ ValidValue(f, pl[f][1])

\* create_essence: Annotated[EssenceCreate, Depends()] reads the fields from
\* query parameters; unknown query parameters are ignored, a body is ignored.
ValidCreateQuery(pl) ==
  /\ pl.loc = "query"
  /\ {"name", "quantity"} \subseteq pl.has
  /\ \A f \in pl.has : pl[f] # <<>> /\ ValidValue(f, pl[f][1])

\* EssenceUpdate from a JSON body: every field optional and nullable
ValidUpdate(pl) ==
  /\ pl.loc = "body"
  /\ ~pl.extra
  /\ \A f \in pl.has : pl[f] = <<>> \/ ValidValue(f, pl[f][1])

\* EssenceBase.model_dump(): all three fields, is_done defaulting to False
DumpBase(pl) ==
  [name |-> pl.name[1], quantity |-> pl.quantity[1],
   is_done |-> IF "is_done" \in pl.has THEN pl.is_done[1] ELSE FALSE]

\* model_dump() of EssenceReplace as optional values keyed by field
DumpReplace(pl) ==
  [f \in Fields |-> IF f = "is_done" /\ "is_done" \notin pl.has THEN <<FALSE>> ELSE pl[f]]

\* EssenceUpdate.model_dump(exclude_unset=True)
DumpUpdate(pl) == [f \in pl.has |-> pl[f]]

NewRow(id, d) == [id |-> id, name |-> d.name, quantity |-> d.quantity, is_done |-> d.is_done]

\* ------------------------------------------------------------- list
ListMatch(r, q) ==
  /\ (q.name = <<>> \/ q.name[1] = <<>> \/ ILikeContains(r.name, q.name[1]))
  /\ (q.is_done = <<>> \/ r.is_done = q.is_done[1])
  /\ (q.min = <<>> \/ r.quantity >= q.min[1])
  /\ (q.max = <<>> \/ r.quantity <= q.max[1])

Min(a, b) == IF a < b THEN a ELSE b

\* select(Essence).where(...).limit(limit).offset(offset), no ORDER BY:
\* SQLite scans the table in rowid order.
ListQuery(rs, q) ==
  LET m == SelectSeq(rs, LAMBDA r : ListMatch(r, q))
  IN IF q.offset >= Len(m) THEN <<>>
     ELSE SubSeq(m, q.offset + 1, Min(Len(m), q.offset + q.limit))

\* ------------------------------------------------------------ tasks
Idle(p) == pc[p] \in {"idle", "done"}

Respond(p, st, b) ==
  /\ pc' = [pc EXCEPT ![p] = "done"]
  /\ res' = [res EXCEPT ![p] = [status |-> st, body |-> b]]
  /\ obj' = [obj EXCEPT ![p] = NoObj]

Begin(p, o, a) ==
  /\ op' = [op EXCEPT ![p] = o]
  /\ arg' = [arg EXCEPT ![p] = a]

\* list_essences: one query, no write
list_essences(p, Queries) ==
  /\ Idle(p)
  /\ \E q \in Queries :
       /\ Begin(p, "list", q)
       /\ IF q.limit < 1 \/ q.limit > MaxLimit \/ q.offset < 0
             \/ (q.min # <<>> /\ q.min[1] < 0) \/ (q.max # <<>> /\ q.max[1] < 0)
            THEN Respond(p, 422, <<>>)
            ELSE Respond(p, 200, ListQuery(rows, q))
  /\ wrote' = [wrote EXCEPT ![p] = FALSE]
  /\ UNCHANGED <<rows, assigned>>

\* get_essence: await db.get, 404 when absent
get_essence(p, Ids) ==
  /\ Idle(p)
  /\ \E id \in Ids :
       /\ Begin(p, "get", [id |-> id])
       /\ IF id \in RowIds(rows)
            THEN Respond(p, 200, RowById(rows, id))
            ELSE Respond(p, 404, <<>>)
  /\ wrote' = [wrote EXCEPT ![p] = FALSE]
  /\ UNCHANGED <<rows, assigned>>

\* create_essence: validation (422), then db.add + await db.commit (the first
\* await: the insert is assigned NewId, or the commit fails and nothing is
\* persisted; Commits is the set of commit outcomes the storage can give),
\* then await db.refresh.
create_essence(p, Payloads, Commits) ==
  /\ Idle(p)
  /\ \E pl \in Payloads :
       /\ Begin(p, "create", [pl |-> pl])
       /\ IF ~ValidCreateQuery(pl)
            THEN /\ Respond(p, 422, <<>>)
                 /\ wrote' = [wrote EXCEPT ![p] = FALSE]
                 /\ UNCHANGED <<rows, assigned>>
            ELSE /\ NewId(rows) <= MaxId
                 /\ \E ok \in Commits :
                      IF ok
                        THEN /\ rows' = Append(rows, NewRow(NewId(rows), DumpBase(pl)))
                             /\ assigned' = assigned \cup {NewId(rows)}
                             /\ pc' = [pc EXCEPT ![p] = "refresh"]
                             /\ obj' = [obj EXCEPT ![p] = [ids |-> <<NewId(rows)>>, i |-> 1, out |-> <<>>]]
                             /\ wrote' = [wrote EXCEPT ![p] = TRUE]
                             /\ UNCHANGED res
                        ELSE /\ Respond(p, 500, <<>>)
                             /\ wrote' = [wrote EXCEPT ![p] = FALSE]
                             /\ UNCHANGED <<rows, assigned>>

\* mutant: rows built in reverse payload order
BulkRowsReversed(rs, pls) ==
  [k \in 1..Len(pls) |-> NewRow(NewId(rs) + k - 1, DumpBase(pls[Len(pls) - k + 1]))]

\* rows inserted by one add_all + commit, ids assigned in list order
BulkRows(rs, pls) ==
  [k \in 1..Len(pls) |-> NewRow(NewId(rs) + k - 1, DumpBase(pls[k]))]

\* create_essences_bulk: List[EssenceCreate] body validated as a whole (422),
\* then add_all + one commit (all or nothing), then one refresh per row.
create_essences_bulk(p, Lists, Commits) ==
  /\ Idle(p)
  /\ \E pls \in Lists :
       /\ Begin(p, "bulk", [pls |-> pls])
       /\ IF \E k \in 1..Len(pls) : ~ValidBase(pls[k])
            THEN /\ Respond(p, 422, <<>>)
                 /\ wrote' = [wrote EXCEPT ![p] = FALSE]
                 /\ UNCHANGED <<rows, assigned>>
            ELSE LET new == BulkRows(rows, pls) IN
                 /\ NewId(rows) + Len(pls) - 1 <= MaxId
                 /\ \E ok \in Commits :
                      IF ok
                        THEN /\ rows' = rows \o new
                             /\ assigned' = assigned \cup RowIds(new)
                             /\ pc' = [pc EXCEPT ![p] = "refresh"]
                             /\ obj' = [obj EXCEPT ![p] =
                                  [ids |-> [k \in 1..Len(new) |-> new[k].id], i |-> 1, out |-> <<>>]]
                             /\ wrote' = [wrote EXCEPT ![p] = TRUE]
                             /\ UNCHANGED res
                        ELSE /\ Respond(p, 500, <<>>)
                             /\ wrote' = [wrote EXCEPT ![p] = FALSE]
                             /\ UNCHANGED <<rows, assigned>>

\* put_essence: body validated (422), await db.get (404), setattr of every
\* field of model_dump() on the loaded object.
put_essence(p, Ids, Payloads) ==
  /\ Idle(p)
  /\ \E id \in Ids, pl \in Payloads :
       /\ Begin(p, "put", [id |-> id, pl |-> pl])
       /\ IF ~ValidBase(pl) THEN Respond(p, 422, <<>>)
          ELSE IF id \notin RowIds(rows) THEN Respond(p, 404, <<>>)
          ELSE /\ pc' = [pc EXCEPT ![p] = "commit"]
               /\ obj' = [obj EXCEPT ![p] = [id |-> id, loaded |-> RowById(rows, id), set |-> DumpReplace(pl)]]
               /\ UNCHANGED res
  /\ wrote' = [wrote EXCEPT ![p] = FALSE]
  /\ UNCHANGED <<rows, assigned>>

\* patch_essence: as put_essence with model_dump(exclude_unset=True)
patch_essence(p, Ids, Payloads) ==
  /\ Idle(p)
  /\ \E id \in Ids, pl \in Payloads :
       /\ Begin(p, "patch", [id |-> id, pl |-> pl])
       /\ IF ~ValidUpdate(pl) THEN Respond(p, 422, <<>>)
          ELSE IF id \notin RowIds(rows) THEN Respond(p, 404, <<>>)
          ELSE /\ pc' = [pc EXCEPT ![p] = "commit"]
               /\ obj' = [obj EXCEPT ![p] = [id |-> id, loaded |-> RowById(rows, id), set |-> DumpUpdate(pl)]]
               /\ UNCHANGED res
  /\ wrote' = [wrote EXCEPT ![p] = FALSE]
  /\ UNCHANGED <<rows, assigned>>

\* delete_essence: await db.get (404), then db.delete + await db.commit
delete_essence(p, Ids) ==
  /\ Idle(p)
  /\ \E id \in Ids :
       /\ Begin(p, "delete", [id |-> id])
       /\ IF id \notin RowIds(rows) THEN Respond(p, 404, <<>>)
          ELSE /\ pc' = [pc EXCEPT ![p] = "commit"]
               /\ obj' = [obj EXCEPT ![p] = [id |-> id]]
               /\ UNCHANGED res
  /\ wrote' = [wrote EXCEPT ![p] = FALSE]
  /\ UNCHANGED <<rows, assigned>>

\* mutant: every set attribute written
DirtyAll(o) == DOMAIN o.set

\* Columns the unit of work puts in the UPDATE: attributes set to a value
\* different from the loaded one.
Dirty(o) == {f \in DOMAIN o.set : o.set[f] = <<>> \/ o.set[f][1] # o.loaded[f]}

UpdateRow(r, o) == [f \in DOMAIN r |-> IF f \in Dirty(o) THEN o.set[f][1] ELSE r[f]]

\* await db.commit() of put/patch/delete
Commit(p) ==
  /\ pc[p] = "commit"
  /\ LET o == obj[p] IN
     IF op[p] = "delete"
       THEN \* DELETE WHERE id; zero matched rows is only a warning
            /\ rows' = RemoveId(rows, o.id)
            /\ wrote' = [wrote EXCEPT ![p] = o.id \in RowIds(rows)]
            /\ Respond(p, 204, <<>>)
     ELSE IF Dirty(o) = {}
       THEN \* nothing to flush
            /\ pc' = [pc EXCEPT ![p] = "refresh"]
            /\ UNCHANGED <<rows, wrote, obj, res>>
     ELSE IF o.id \notin RowIds(rows)
       THEN \* StaleDataError: UPDATE matched 0 rows
            /\ Respond(p, 500, <<>>)
            /\ UNCHANGED <<rows, wrote>>
     ELSE IF \E f \in Dirty(o) : o.set[f] = <<>>
       THEN \* IntegrityError: NOT NULL constraint failed, rolled back
            /\ Respond(p, 500, <<>>)
            /\ UNCHANGED <<rows, wrote>>
     ELSE /\ rows' = [k \in DOMAIN rows |->
                        IF rows[k].id = o.id THEN UpdateRow(rows[k], o) ELSE rows[k]]
          /\ wrote' = [wrote EXCEPT ![p] = TRUE]
          /\ pc' = [pc EXCEPT ![p] = "refresh"]
          /\ UNCHANGED <<obj, res>>
  /\ UNCHANGED <<op, arg, assigned>>

\* await db.refresh(obj): SELECT by id; a vanished row raises (500)
Refresh(p) ==
  /\ pc[p] = "refresh"
  /\ LET o == obj[p]
         id == IF op[p] \in {"put", "patch"} THEN o.id ELSE o.ids[o.i]
     IN  CASE id \notin RowIds(rows) ->
                Respond(p, 500, <<>>)
           [] op[p] \in {"put", "patch"} ->
                Respond(p, 200, RowById(rows, id))
           [] o.i = Len(o.ids) ->
                Respond(p, 201, IF op[p] = "create" THEN RowById(rows, id)
                                ELSE Append(o.out, RowById(rows, id)))
           [] OTHER ->
                /\ obj' = [obj EXCEPT ![p] = [o EXCEPT !.i = o.i + 1,
                                                       !.out = Append(o.out, RowById(rows, id))]]
                /\ UNCHANGED <<pc, res>>
  /\ UNCHANGED <<rows, op, arg, assigned, wrote>>


\* ---------------------------------------------------------- inputs
Procs == {1, 2}
AllIds == 1..MaxId

BodyA0T == Payload("body", Fields, <<NameA>>, <<0>>, <<TRUE>>, FALSE)
BodyB2 == Payload("body", {"name", "quantity"}, <<NameB>>, <<2>>, <<>>, FALSE)

CreateInputs ==
  {Payload("query", Fields, <<NameA>>, <<0>>, <<TRUE>>, FALSE),
   Payload("query", {"name", "quantity"}, <<NameB>>, <<2>>, <<>>, FALSE),
   Payload("query", Fields, <<NameA>>, <<2>>, <<FALSE>>, TRUE),
   Payload("query", {"name", "quantity"}, <<LongName>>, <<0>>, <<>>, FALSE),
   Payload("query", {"name", "quantity"}, <<NameA>>, <<-1>>, <<>>, FALSE),
   Payload("query", {"name"}, <<NameA>>, <<>>, <<>>, FALSE),
   Payload("body", Fields, <<NameA>>, <<0>>, <<TRUE>>, FALSE),
   Payload("body", Fields, <<NameA>>, <<2>>, <<FALSE>>, TRUE)}

PutInputs ==
  {Payload("body", Fields, <<NameB>>, <<2>>, <<TRUE>>, FALSE),
   Payload("body", {"name", "quantity"}, <<NameA>>, <<0>>, <<>>, FALSE),
   Payload("body", Fields, <<NameA>>, <<0>>, <<FALSE>>, TRUE),
   Payload("body", Fields, <<NameA>>, <<-1>>, <<FALSE>>, FALSE),
   Payload("body", Fields, <<>>, <<0>>, <<FALSE>>, FALSE),
   Payload("query", Fields, <<NameB>>, <<2>>, <<TRUE>>, FALSE)}

PatchInputs ==
  {Payload("body", {}, <<>>, <<>>, <<>>, FALSE),
   Payload("body", {"name"}, <<NameB>>, <<>>, <<>>, FALSE),
   Payload("body", {"quantity"}, <<>>, <<2>>, <<>>, FALSE),
   Payload("body", {"is_done"}, <<>>, <<>>, <<TRUE>>, FALSE),
   Payload("body", {"name"}, <<>>, <<>>, <<>>, FALSE),
   Payload("body", {"quantity"}, <<>>, <<-1>>, <<>>, FALSE),
   Payload("body", {"name"}, <<NameB>>, <<>>, <<>>, TRUE),
   Payload("query", {"name"}, <<NameB>>, <<>>, <<>>, FALSE)}

BulkItems ==
  {BodyA0T, BodyB2,
   Payload("body", {"name", "quantity"}, <<NameA>>, <<-1>>, <<>>, FALSE)}

BulkInputs == UNION {[1..n -> BulkItems] : n \in 1..MaxBulk}

ListInputs ==
  [name : {<<>>, <<<<>>>>, <<<<"a", "p">>>>, <<<<"_">>>>},
   is_done : {<<>>, <<TRUE>>},
   min : {<<>>, <<1>>},
   max : {<<>>, <<1>>},
   limit : {1, DefaultLimit},
   offset : {0, 1}]

ListCreates ==
  {Payload("query", Fields, <<NameA>>, <<0>>, <<TRUE>>, FALSE),
   Payload("query", Fields, <<NameB>>, <<2>>, <<FALSE>>, FALSE),
   Payload("query", Fields, <<NameA>>, <<2>>, <<FALSE>>, FALSE)}

ListPuts == {Payload("body", Fields, <<NameB>>, <<0>>, <<TRUE>>, FALSE)}
ListPatches == {Payload("body", {"name", "quantity"}, <<NameA>>, <<2>>, <<>>, FALSE)}

\* inputs of the interleaving model: requests on row 1
ConcCreates == {Payload("query", {"name", "quantity"}, <<NameA>>, <<0>>, <<>>, FALSE)}
ConcPuts == {Payload("body", Fields, <<NameB>>, <<0>>, <<FALSE>>, FALSE)}
ConcPatches == {Payload("body", {"is_done"}, <<>>, <<>>, <<TRUE>>, FALSE)}

\* ----------------------------------------------------- specification
Init ==
  /\ rows = <<>>
  /\ pc = [p \in Procs |-> "idle"]
  /\ op = [p \in Procs |-> "none"]
  /\ arg = [p \in Procs |-> NoObj]
  /\ obj = [p \in Procs |-> NoObj]
  /\ res = [p \in Procs |-> NoRes]
  /\ assigned = {}
  /\ wrote = [p \in Procs |-> FALSE]

\* one client, one request at a time
SeqNext ==
  \E p \in {1} :
    \/ get_essence(p, AllIds)
    \/ create_essence(p, CreateInputs, BOOLEAN)
    \/ create_essences_bulk(p, BulkInputs, BOOLEAN)
    \/ put_essence(p, AllIds, PutInputs)
    \/ patch_essence(p, AllIds, PatchInputs)
    \/ delete_essence(p, AllIds)
    \/ Commit(p)
    \/ Refresh(p)
SeqSpec == Init /\ [][SeqNext]_vars

\* one client changing and listing rows
ListNext ==
  \E p \in {1} :
    \/ list_essences(p, ListInputs)
    \/ get_essence(p, AllIds)
    \/ create_essence(p, ListCreates, BOOLEAN)
    \/ create_essences_bulk(p, {<<BodyA0T, BodyB2>>}, BOOLEAN)
    \/ put_essence(p, AllIds, ListPuts)
    \/ patch_essence(p, AllIds, ListPatches)
    \/ delete_essence(p, AllIds)
    \/ Commit(p)
    \/ Refresh(p)
ListSpec == Init /\ [][ListNext]_vars

\* requests of two clients interleaved at their await points, storage available
Next ==
  \E p \in Procs :
    \/ create_essence(p, ConcCreates, {TRUE})
    \/ create_essences_bulk(p, {<<BodyA0T, BodyB2>>}, {TRUE})
    \/ put_essence(p, {1}, ConcPuts)
    \/ patch_essence(p, {1}, ConcPatches)
    \/ delete_essence(p, {1, 2})
    \/ Commit(p)
    \/ Refresh(p)
Spec == Init /\ [][Next]_vars

TypeOK ==
  /\ \A p \in Procs : pc[p] \in {"idle", "commit", "refresh", "done"}
  /\ Len(rows) <= MaxId

\* ============================================================ claims
SeqProcs == {1}

\* C1: every valid Create payload (name of length <= 255, quantity >= 0,
\* is_done optional) sent to create is answered 201 with a record whose
\* name, quantity and is_done are the input's (is_done false when omitted),
\* stored under that id.
C1_CreateReturnsInput ==
  \A p \in SeqProcs :
    (pc[p] = "done" /\ op[p] = "create" /\ ValidBase(arg[p].pl))
      => LET pl == arg[p].pl IN
         /\ res[p].status = 201
         /\ res[p].body.name = pl.name[1]
         /\ res[p].body.quantity = pl.quantity[1]
         /\ res[p].body.is_done = IF "is_done" \in pl.has THEN pl.is_done[1] ELSE FALSE

\* C2: get, put, patch and delete of an id with no row (never created or
\* deleted) answer 404 and leave the rows unchanged; a delete of an existing
\* id answers 204 and removes it, so a repeated delete answers 404.
C2_NotFound ==
  [][\A p \in SeqProcs :
       /\ (/\ Idle(p) /\ op'[p] \in {"get", "put", "patch", "delete"}
           /\ arg'[p].id \notin RowIds(rows)
           /\ (op'[p] = "put" => ValidBase(arg'[p].pl))
           /\ (op'[p] = "patch" => ValidUpdate(arg'[p].pl)))
            => res'[p].status = 404 /\ pc'[p] = "done" /\ rows' = rows
       /\ (pc[p] = "commit" /\ op[p] = "delete")
            => res'[p].status = 204 /\ arg[p].id \notin RowIds(rows')]_vars

C2_Witness ==
  /\ pc[1] = "done" /\ op[1] = "delete" /\ res[1].status = 404
  /\ arg[1].id \in assigned

\* the row of id after a partial update applying the present fields of pl
PatchedRowOK(r0, r1, pl) ==
  \A f \in Fields : IF f \in pl.has THEN <<r1[f]>> = pl[f] ELSE r1[f] = r0[f]

OtherRows(rs, id) == SelectSeq(rs, LAMBDA r : r.id # id)

\* C3 (original): a partial update of an existing id changes exactly the
\* fields present in the payload and nothing else.
C3_Original ==
  [][\A p \in SeqProcs :
       (pc[p] = "commit" /\ op[p] = "patch")
         => /\ obj[p].id \in RowIds(rows')
            /\ PatchedRowOK(RowById(rows, obj[p].id), RowById(rows', obj[p].id), arg[p].pl)
            /\ OtherRows(rows', obj[p].id) = OtherRows(rows, obj[p].id)]_vars

\* C4 (original): a full replace succeeds only with all three fields supplied
\* and returns the row holding exactly them.
C4_Original ==
  \A p \in SeqProcs :
    (pc[p] = "done" /\ op[p] = "put" /\ res[p].status = 200)
      => /\ Fields \subseteq arg[p].pl.has
         /\ \A f \in Fields : <<res[p].body[f]>> = arg[p].pl[f]

\* case-insensitive literal substring
SubstringCI(s, nm) ==
  \E i \in 0..Len(s) :
    /\ i + Len(nm) <= Len(s)
    /\ SubSeq(LowerStr(s), i + 1, i + Len(nm)) = LowerStr(nm)

ClaimedList(rs, q) ==
  LET m == SelectSeq(rs, LAMBDA r :
             /\ (q.name = <<>> \/ SubstringCI(r.name, q.name[1]))
             /\ (q.is_done = <<>> \/ r.is_done = q.is_done[1])
             /\ (q.min = <<>> \/ r.quantity >= q.min[1])
             /\ (q.max = <<>> \/ r.quantity <= q.max[1]))
  IN [k \in 1..Min(q.limit, IF Len(m) > q.offset THEN Len(m) - q.offset ELSE 0) |->
        m[q.offset + k]]

\* C5: list returns, in creation order, the rows matching every supplied
\* filter (case-insensitive name substring, exact is_done, inclusive
\* quantity bounds), skipping offset matches and keeping at most limit.
C5_ListFilters ==
  [][\A p \in {1} :
       (Idle(p) /\ op'[p] = "list" /\ res'[p].status = 200)
         => res'[p].body = ClaimedList(rows, arg'[p])]_vars

\* C6: a bulk create with any invalid payload answers 422 and persists
\* nothing; a failed commit persists nothing; a successful one returns one
\* record per payload, in input order.
C6_BulkAllOrNothing ==
  [][\A p \in SeqProcs :
       /\ (Idle(p) /\ op'[p] = "bulk")
            => /\ (\E k \in 1..Len(arg'[p].pls) : ~ValidBase(arg'[p].pls[k]))
                    => res'[p].status = 422 /\ rows' = rows
               /\ pc'[p] = "done" => rows' = rows
               /\ pc'[p] = "refresh" => Len(rows') = Len(rows) + Len(arg'[p].pls)
       /\ (pc[p] = "refresh" /\ op[p] = "bulk" /\ pc'[p] = "done" /\ res'[p].status = 201)
            => LET pls == arg[p].pls
                   b == res'[p].body
               IN /\ Len(b) = Len(pls)
                  /\ \A k \in 1..Len(b) :
                       /\ b[k].name = pls[k].name[1]
                       /\ b[k].quantity = pls[k].quantity[1]
                       /\ b[k].is_done = IF "is_done" \in pls[k].has THEN pls[k].is_done[1] ELSE FALSE
                       /\ (k > 1 => b[k - 1].id < b[k].id)]_vars

C6_Witness ==
  /\ pc[1] = "done" /\ op[1] = "bulk" /\ res[1].status = 201
  /\ Len(arg[1].pls) = 2 /\ arg[1].pls[1] # arg[1].pls[2]

\* C7: ids are unique and an id once assigned (and deleted) is never
\* assigned again to a later row.
C7_IdsNeverReused ==
  [][/\ Cardinality(RowIds(rows')) = Len(rows')
     /\ \A i \in RowIds(rows') \ RowIds(rows) : i \notin assigned]_vars

\* C8: every payload of create, bulk create, put and patch is read from the
\* body, and a payload with an unknown field is rejected with 422.
C8_BodyOnlyForbidExtra ==
  \A p \in SeqProcs :
    /\ (pc[p] = "done" /\ op[p] \in {"create", "put", "patch"})
         => /\ arg[p].pl.extra => res[p].status = 422
            /\ res[p].status \in {200, 201} => arg[p].pl.loc = "body"
    /\ (pc[p] = "done" /\ op[p] = "bulk" /\ \E k \in 1..Len(arg[p].pls) : arg[p].pls[k].extra)
         => res[p].status = 422

RowsWellFormed ==
  \A k \in DOMAIN rows :
    /\ Len(rows[k].name) <= NameMaxLen
    /\ rows[k].quantity >= 0
    /\ rows[k].is_done \in BOOLEAN

\* C9 (original): every row is well formed and no request that committed a
\* change ends in an error.
C9_Original ==
  /\ RowsWellFormed
  /\ \A p \in Procs : (pc[p] = "done" /\ wrote[p]) => res[p].status \in {200, 201, 204}

\* the whole row a put/patch request intends after its setattr calls
IntendedRow(o) ==
  [f \in DOMAIN o.loaded |-> IF f \in DOMAIN o.set /\ o.set[f] # <<>> THEN o.set[f][1] ELSE o.loaded[f]]

====
